---- MODULE Spec2Model ----
(***************************************************************************)
(* State-machine model of the library attendance register (app.py,         *)
(* models.py): the period resolver, the capacity count, the eligibility    *)
(* check, the student check-in form, the admin-initiated check-in, the     *)
(* admin session, the warning store and the period memo file.              *)
(*                                                                         *)
(* Time is a pair [day, minute]: day 0 is a Monday, weekday = day % 7 as   *)
(* datetime.weekday(); minute is the time of day in whole minutes.  The    *)
(* period table holds whole minutes, so comparing whole minutes gives the  *)
(* same result as comparing the datetime.time values of the code.          *)
(* A stored timestamp '%Y-%m-%d %H:%M:%S' is the tuple <<day, minute>>, a  *)
(* date-only string is <<day>>, an unparseable date string is <<-1>>.      *)
(* Identifiers are tuples of digits, names are tuples of characters.       *)
(*                                                                         *)
(* inflight holds the form requests that have passed their checks and not  *)
(* yet saved; deleted_count is the count reported by the last record       *)
(* deletion; origin and deleted are history variables: the override flag   *)
(* behind each row, and the rows removed by the admin deletions.           *)
(***************************************************************************)
EXTENDS Integers, Sequences, FiniteSets, TLC

VARIABLES now, session, FILENAME, BACKUP_FILE, EXCEL_FRIENDLY_FILE, warnings,
          origin, flashed, MEMO_FILE, inflight, deleted_count, deleted

vars == <<now, session, FILENAME, BACKUP_FILE, EXCEL_FRIENDLY_FILE, warnings,
          origin, flashed, MEMO_FILE, inflight, deleted_count, deleted>>

(* ---------------------------- bounds ---------------------------------- *)
MaxDay == 12
MaxNew == 1
MaxWarnings == 1
MaxRequestMinutes == 1
MaxMemos == 3
MaxStoredWarnings == 2
\* the largest number of records named by one deletion request
MaxTriples == 2

(* ------------------------- program constants -------------------------- *)
MAX_CAPACITY == 35
ADMIN_PASSWORD == "1234"

\* PERIOD_SCHEDULE[p] = <<start_h, start_m, end_h, end_m>>
PERIOD_SCHEDULE ==
  <<  <<7, 50, 9, 15>>,
      <<9, 15, 10, 40>>,
      <<10, 40, 12, 5>>,
      <<12, 5, 12, 30>>,
      <<12, 30, 14, 25>>,
      <<14, 25, 15, 50>>  >>

(* ------------------------------ inputs -------------------------------- *)
\* The clock is sampled at 08:00 (period 1) on Mondays and Saturdays and at
\* 12:10 (inside the excluded period 4) on the first day.
ClockInstants ==
  {[day |-> d, minute |-> 480] : d \in {e \in 0..MaxDay : e % 7 \in {0, 5}}}
    \cup {[day |-> 0, minute |-> 730]}
MinutesOfDay == 0..1439

Kim == <<"K", "i", "m">>
KimSpaced == <<"K", " ", "i", "m">>
Pak == <<"P", "a", "k">>
FillerName == <<"F">>

IdKim == <<2, 3, 1, 0>>
IdPak == <<3, 1, 0, 1>>
IdUnknown == <<9, 9, 9, 9>>
NumFillers == MAX_CAPACITY - 2
FillerId(k) == <<1, k \div 10, k % 10>>
FillerIds == {FillerId(k) : k \in 1..NumFillers}

\* load_student_data: identifier -> (name, seat); the roster is read-only
load_student_data ==
  [id \in {IdKim, IdPak} \cup FillerIds |->
     IF id = IdKim THEN <<Kim, "A12">>
     ELSE IF id = IdPak THEN <<Pak, "B07">>
     ELSE <<FillerName, "F00">>]

FormIds == {IdKim, IdPak, IdUnknown}
AdminFormIds == {IdKim, IdUnknown}
FormNames == {KimSpaced, Pak}
FormSeats == {"A12"}
FormPasswords == {"1234", "0000"}
WarnDays == {1}
\* the durations used for the warning store alone: a warning of 7 days set
\* on a Monday at 08:00 expires exactly at a sampled instant
StoreWarnDays == {1, 7}

(* --------------------------- string helpers --------------------------- *)
\* str.replace(' ', '')
NoSpaces(s) == SelectSeq(s, LAMBDA c : c # " ")

\* str.startswith('3')
StartsWith3(id) == Len(id) > 0 /\ id[1] = 3

\* f'{period}교시' if period > 0 else '시간 외'
period_text(period) ==
  IF period > 0 THEN ToString(period) \o "gyosi" ELSE "sigan-oe"

(* ------------------------------- time --------------------------------- *)
\* now.strftime('%Y-%m-%d %H:%M:%S')
Stamp(t) == <<t.day, t.minute>>

\* row['출석일'].split(' ')[0]
DatePart(stamp) == IF Len(stamp) >= 2 THEN <<stamp[1]>> ELSE stamp

\* datetime.strptime(date_part, '%Y-%m-%d') succeeds
Parses(date_part) == Len(date_part) = 1 /\ date_part[1] >= 0

weekday(day) == day % 7

Later(a, b) == a.day > b.day \/ (a.day = b.day /\ a.minute > b.minute)

PlusDays(t, days) == [day |-> t.day + days, minute |-> t.minute]

(* --------------------------- period resolver -------------------------- *)
PeriodStart(p) == PERIOD_SCHEDULE[p][1] * 60 + PERIOD_SCHEDULE[p][2]
PeriodEnd(p) == PERIOD_SCHEDULE[p][3] * 60 + PERIOD_SCHEDULE[p][4]

\* mutant of ScanPeriods: the end of an interval is taken as inside it
RECURSIVE ScanPeriodsClosedEnd(_, _)
ScanPeriodsClosedEnd(p, minute) ==
  IF p > Len(PERIOD_SCHEDULE) THEN 0
  ELSE IF PeriodStart(p) <= minute /\ minute <= PeriodEnd(p)
       THEN (IF p = 4 THEN 0 ELSE p)
       ELSE ScanPeriodsClosedEnd(p + 1, minute)

\* mutant of ScanPeriods: the excluded period 4 is returned like the others
RECURSIVE ScanPeriodsKeeps4(_, _)
ScanPeriodsKeeps4(p, minute) ==
  IF p > Len(PERIOD_SCHEDULE) THEN 0
  ELSE IF PeriodStart(p) <= minute /\ minute < PeriodEnd(p)
       THEN p
       ELSE ScanPeriodsKeeps4(p + 1, minute)

RECURSIVE ScanPeriods(_, _)
ScanPeriods(p, minute) ==
  IF p > Len(PERIOD_SCHEDULE) THEN 0
  ELSE IF PeriodStart(p) <= minute /\ minute < PeriodEnd(p)
       THEN (IF p = 4 THEN 0 ELSE p)
       ELSE ScanPeriods(p + 1, minute)

get_current_period(t) == ScanPeriods(1, t.minute)

(* ---------------------------- capacity count -------------------------- *)
\* the loop over the rows of the file: count += 1 for each row of `today`
\* tagged `label`
CountRows(rows, today, label) ==
  Cardinality({i \in 1..Len(rows) :
                 DatePart(rows[i].date) = today /\ rows[i].period = label})

get_current_period_attendance_count(t) ==
  LET current_period == get_current_period(t) IN
  IF current_period = 0 THEN 0
  ELSE CountRows(FILENAME, <<t.day>>, period_text(current_period))

(* ----------------------------- warnings ------------------------------- *)
InEffect(w, student_id, t) ==
  /\ w.student_id = student_id
  /\ Later(w.expiry_date, t)
  /\ w.is_active

\* mutant of is_student_warned: the expiry date is not compared with now
is_student_warned_NoExpiry(student_id, t) ==
  LET docs == {w \in warnings : w.student_id = student_id /\ w.is_active} IN
  IF docs # {}
  THEN <<TRUE, CHOOSE w \in docs : \A v \in docs : w.id <= v.id>>
  ELSE <<FALSE, "None">>

\* mutant of is_student_warned: only the oldest warning of the student is
\* looked at
is_student_warned_OldestOnly(student_id, t) ==
  LET mine == {w \in warnings : w.student_id = student_id} IN
  IF mine = {} THEN <<FALSE, "None">>
  ELSE LET first == CHOOSE w \in mine : \A v \in mine : w.id <= v.id IN
       IF InEffect(first, student_id, t) THEN <<TRUE, first>>
       ELSE <<FALSE, "None">>

\* returns <<is_warned, warning_info>>
is_student_warned(student_id, t) ==
  LET docs == {w \in warnings : InEffect(w, student_id, t)} IN
  IF docs # {}
  THEN <<TRUE, CHOOSE w \in docs : \A v \in docs : w.id <= v.id>>
  ELSE <<FALSE, "None">>

(* ------------------------- eligibility check -------------------------- *)
Result(already_attended, last_attendance_date, is_warned, warning_info) ==
  [already_attended |-> already_attended,
   last_attendance_date |-> last_attendance_date,
   is_warned |-> is_warned,
   warning_info |-> warning_info]

\* the parsed dates (attend_time) of the rows of the student; rows whose date
\* does not parse are skipped (except ValueError: continue)
AttendDays(student_id) ==
  {DatePart(FILENAME[i].date)[1] :
     i \in {j \in 1..Len(FILENAME) :
              /\ FILENAME[j].student_id = student_id
              /\ Parses(DatePart(FILENAME[j].date))}}

this_week_monday(t) == t.day - weekday(t.day)

\* weekly_attendance_count >= 1
attended_this_week(student_id, t) ==
  \E d \in AttendDays(student_id) :
     d >= this_week_monday(t) /\ weekday(d) <= 4

last_attendance_date(student_id) ==
  LET days == AttendDays(student_id) IN
  IF days = {} THEN <<>>
  ELSE <<CHOOSE d \in days : \A e \in days : d >= e>>

\* mutant of check_attendance: the exempt prefix is not looked at
check_attendance_NoExempt(student_id, admin_override, sess, t) ==
  LET warned == is_student_warned(student_id, t) IN
  IF admin_override THEN Result(FALSE, <<>>, FALSE, "None")
  ELSE IF warned[1] /\ ~admin_override
       THEN Result(FALSE, <<>>, TRUE, warned[2])
  ELSE IF attended_this_week(student_id, t) /\ ~sess.admin
       THEN Result(TRUE, last_attendance_date(student_id), FALSE, "None")
  ELSE Result(FALSE, last_attendance_date(student_id), FALSE, "None")

\* mutant of check_attendance: the override flag is not looked at first
check_attendance_NoOverride(student_id, admin_override, sess, t) ==
  LET warned == is_student_warned(student_id, t) IN
  IF StartsWith3(student_id) THEN Result(FALSE, <<>>, FALSE, "None")
  ELSE IF warned[1] /\ ~admin_override
       THEN Result(FALSE, <<>>, TRUE, warned[2])
  ELSE IF attended_this_week(student_id, t) /\ ~sess.admin
       THEN Result(TRUE, last_attendance_date(student_id), FALSE, "None")
  ELSE Result(FALSE, last_attendance_date(student_id), FALSE, "None")

check_attendance(student_id, admin_override, sess, t) ==
  LET warned == is_student_warned(student_id, t) IN
  IF admin_override THEN Result(FALSE, <<>>, FALSE, "None")
  ELSE IF StartsWith3(student_id) THEN Result(FALSE, <<>>, FALSE, "None")
  ELSE IF warned[1] /\ ~admin_override
       THEN Result(FALSE, <<>>, TRUE, warned[2])
  ELSE IF attended_this_week(student_id, t) /\ ~sess.admin
       THEN Result(TRUE, last_attendance_date(student_id), FALSE, "None")
  ELSE Result(FALSE, last_attendance_date(student_id), FALSE, "None")

(* ------------------------------- save --------------------------------- *)
\* mutant of Row: the stamp keeps the date and drops the time of day
Row_DateOnly(student_id, name, seat, t) ==
  [date |-> <<t.day>>,
   period |-> period_text(get_current_period(t)),
   student_id |-> student_id,
   name |-> name,
   seat |-> seat]

Row(student_id, name, seat, t) ==
  [date |-> Stamp(t),
   period |-> period_text(get_current_period(t)),
   student_id |-> student_id,
   name |-> name,
   seat |-> seat]

CanAppend == Len(FILENAME) < MAX_CAPACITY + MaxNew

\* appends the row to the three attendance files; origin is the history
\* variable recording, per row, whether the override flag created it
save_attendance(student_id, name, seat, overridden) ==
  LET row == Row(student_id, name, seat, now) IN
  /\ FILENAME' = Append(FILENAME, row)
  /\ BACKUP_FILE' = Append(BACKUP_FILE, row)
  /\ EXCEL_FRIENDLY_FILE' = Append(EXCEL_FRIENDLY_FILE, row)
  /\ origin' = Append(origin, overridden)

(* ----------------------- student check-in form ------------------------ *)
\* mutant of attendance_flash: the capacity test is > instead of >=
attendance_flash_OffByOne(student_id, name) ==
  IF get_current_period(now) = 0 THEN "no_period"
  ELSE IF get_current_period_attendance_count(now) > MAX_CAPACITY
       THEN "capacity"
  ELSE IF student_id \notin DOMAIN load_student_data THEN "bad_id"
  ELSE IF NoSpaces(load_student_data[student_id][1]) # NoSpaces(name)
       THEN "bad_name"
  ELSE IF check_attendance(student_id, FALSE, session, now).already_attended
       THEN "already"
  ELSE "success"

\* mutant of attendance_flash: the roster is consulted before the capacity
attendance_flash_ValidateFirst(student_id, name) ==
  IF get_current_period(now) = 0 THEN "no_period"
  ELSE IF student_id \notin DOMAIN load_student_data THEN "bad_id"
  ELSE IF NoSpaces(load_student_data[student_id][1]) # NoSpaces(name)
       THEN "bad_name"
  ELSE IF get_current_period_attendance_count(now) >= MAX_CAPACITY
       THEN "capacity"
  ELSE IF check_attendance(student_id, FALSE, session, now).already_attended
       THEN "already"
  ELSE "success"

\* the flash message the POST handler ends with
attendance_flash(student_id, name) ==
  IF get_current_period(now) = 0 THEN "no_period"
  ELSE IF get_current_period_attendance_count(now) >= MAX_CAPACITY
       THEN "capacity"
  ELSE IF student_id \notin DOMAIN load_student_data THEN "bad_id"
  ELSE IF NoSpaces(load_student_data[student_id][1]) # NoSpaces(name)
       THEN "bad_name"
  ELSE IF check_attendance(student_id, FALSE, session, now).already_attended
       THEN "already"
  ELSE "success"

attendance(student_id, name) ==
  LET flash == attendance_flash(student_id, name) IN
  /\ flash = "success" => CanAppend
  /\ IF flash = "success"
     THEN save_attendance(student_id, name,
                          load_student_data[student_id][2], FALSE)
     ELSE UNCHANGED <<FILENAME, BACKUP_FILE, EXCEL_FRIENDLY_FILE, origin>>
  /\ flashed' = flash
  /\ UNCHANGED <<now, session, warnings, MEMO_FILE,
                 inflight, deleted_count, deleted>>

(* ------------------------- save with a failing write ------------------ *)
\* the file whose write raises an error, if any
Faults == {"none", "main", "backup", "excel"}

\* save_attendance returns False when the write of the main or of the backup
\* file raises; an error of the Excel-friendly file is logged and swallowed
save_attendance_returns(fault) == fault \notin {"main", "backup"}

\* the files are written in the order main, backup, Excel-friendly; the
\* writes that precede the failing one have happened
save_attendance_io(student_id, name, seat, overridden, fault) ==
  LET row == Row(student_id, name, seat, now) IN
  /\ FILENAME' = IF fault = "main" THEN FILENAME ELSE Append(FILENAME, row)
  /\ origin' = IF fault = "main" THEN origin ELSE Append(origin, overridden)
  /\ BACKUP_FILE' = IF fault \in {"main", "backup"} THEN BACKUP_FILE
                    ELSE Append(BACKUP_FILE, row)
  /\ EXCEL_FRIENDLY_FILE' = IF fault = "none"
                            THEN Append(EXCEL_FRIENDLY_FILE, row)
                            ELSE EXCEL_FRIENDLY_FILE

\* the student form handler over files whose writes may fail
attendance_io(student_id, name, fault) ==
  LET flash == attendance_flash(student_id, name) IN
  /\ flash = "success" => CanAppend
  /\ IF flash = "success"
     THEN /\ save_attendance_io(student_id, name,
                                load_student_data[student_id][2], FALSE, fault)
          /\ flashed' = IF save_attendance_returns(fault) THEN "success"
                        ELSE "save_error"
     ELSE /\ UNCHANGED <<FILENAME, BACKUP_FILE, EXCEL_FRIENDLY_FILE, origin>>
          /\ flashed' = flash
  /\ UNCHANGED <<now, session, warnings, MEMO_FILE,
                 inflight, deleted_count, deleted>>

(* ------------------ form handler with a running clock ----------------- *)
\* The handler reads the clock when it resolves the period (the checks) and
\* again inside save_attendance (the stamp and the label of the row); the
\* checks are made at `now`, the row is written at t_save, at most
\* MaxRequestMinutes later.
BoundaryInstants ==
  {[day |-> 8, minute |-> m] :
     m \in UNION {{PeriodStart(p) - 1, PeriodStart(p),
                   PeriodEnd(p) - 1, PeriodEnd(p)} :
                    p \in 1..Len(PERIOD_SCHEDULE)}}

save_attendance_at(student_id, name, seat, overridden, t_save) ==
  LET row == Row(student_id, name, seat, t_save) IN
  /\ FILENAME' = Append(FILENAME, row)
  /\ BACKUP_FILE' = Append(BACKUP_FILE, row)
  /\ EXCEL_FRIENDLY_FILE' = Append(EXCEL_FRIENDLY_FILE, row)
  /\ origin' = Append(origin, overridden)

attendance_clock(student_id, name, t_save) ==
  LET flash == attendance_flash(student_id, name) IN
  /\ ~Later(now, t_save)
  /\ t_save.day = now.day
  /\ t_save.minute - now.minute <= MaxRequestMinutes
  /\ flash = "success" => CanAppend
  /\ IF flash = "success"
     THEN save_attendance_at(student_id, name,
                             load_student_data[student_id][2], FALSE, t_save)
     ELSE UNCHANGED <<FILENAME, BACKUP_FILE, EXCEL_FRIENDLY_FILE, origin>>
  /\ flashed' = flash
  /\ now' = t_save
  /\ UNCHANGED <<session, warnings, MEMO_FILE,
                 inflight, deleted_count, deleted>>

(* ----------------------- admin-initiated check-in --------------------- *)
\* mutant of admin_add_flash: the names are compared with their spaces
admin_add_flash_ExactName(student_id, name, override) ==
  IF ~session.admin THEN "login_required"
  ELSE IF student_id \notin DOMAIN load_student_data THEN "bad_id"
  ELSE IF load_student_data[student_id][1] # name THEN "bad_name"
  ELSE IF check_attendance(student_id, FALSE, session, now).already_attended
          /\ ~override
       THEN "already"
  ELSE "success"

\* mutant of admin_add_flash: the capacity of the current period is tested
admin_add_flash_WithCapacity(student_id, name, override) ==
  IF ~session.admin THEN "login_required"
  ELSE IF get_current_period_attendance_count(now) >= MAX_CAPACITY
       THEN "capacity"
  ELSE IF student_id \notin DOMAIN load_student_data THEN "bad_id"
  ELSE IF NoSpaces(load_student_data[student_id][1]) # NoSpaces(name)
       THEN "bad_name"
  ELSE IF check_attendance(student_id, FALSE, session, now).already_attended
          /\ ~override
       THEN "already"
  ELSE "success"

admin_add_flash(student_id, name, override) ==
  IF ~session.admin THEN "login_required"
  ELSE IF student_id \notin DOMAIN load_student_data THEN "bad_id"
  ELSE IF NoSpaces(load_student_data[student_id][1]) # NoSpaces(name)
       THEN "bad_name"
  ELSE IF check_attendance(student_id, FALSE, session, now).already_attended
          /\ ~override
       THEN "already"
  ELSE "success"

admin_add_attendance_confirm(student_id, name, seat, override) ==
  LET flash == admin_add_flash(student_id, name, override) IN
  /\ flash = "success" => CanAppend
  /\ IF flash = "success"
     THEN save_attendance(student_id, name, seat, override)
     ELSE UNCHANGED <<FILENAME, BACKUP_FILE, EXCEL_FRIENDLY_FILE, origin>>
  /\ flashed' = flash
  /\ UNCHANGED <<now, session, warnings, MEMO_FILE,
                 inflight, deleted_count, deleted>>

(* ---------------------------- admin session --------------------------- *)
\* mutant of admin_login: the password is not compared
admin_login_AnyPassword(password) ==
  /\ session' = [admin |-> TRUE]
  /\ UNCHANGED <<now, FILENAME, BACKUP_FILE, EXCEL_FRIENDLY_FILE, warnings,
                 origin, flashed, MEMO_FILE, inflight, deleted_count, deleted>>

admin_login(password) ==
  /\ session' = IF session.admin THEN session
                ELSE IF password = ADMIN_PASSWORD THEN [admin |-> TRUE]
                ELSE session
  /\ UNCHANGED <<now, FILENAME, BACKUP_FILE, EXCEL_FRIENDLY_FILE, warnings,
                 origin, flashed, MEMO_FILE, inflight, deleted_count, deleted>>

logout ==
  /\ session' = [admin |-> FALSE]
  /\ UNCHANGED <<now, FILENAME, BACKUP_FILE, EXCEL_FRIENDLY_FILE, warnings,
                 origin, flashed, MEMO_FILE, inflight, deleted_count, deleted>>

(* ---------------------------- warning store --------------------------- *)
FreshId == CHOOSE n \in 1..(Cardinality(warnings) + 1) :
             \A w \in warnings : w.id # n

\* the route with the number of stored warnings capped at `cap`
add_warning_to(student_id, days, cap) ==
  /\ Cardinality(warnings) < cap
  /\ session.admin
  /\ student_id \in DOMAIN load_student_data
  /\ warnings' = warnings \cup
       {[id |-> FreshId,
         student_id |-> student_id,
         student_name |-> load_student_data[student_id][1],
         warning_date |-> now,
         expiry_date |-> PlusDays(now, days),
         is_active |-> TRUE]}
  /\ UNCHANGED <<now, session, FILENAME, BACKUP_FILE, EXCEL_FRIENDLY_FILE,
                 origin, flashed, MEMO_FILE, inflight, deleted_count, deleted>>

add_warning(student_id, days) == add_warning_to(student_id, days, MaxWarnings)

\* mutant of remove_warning: the document is deleted
remove_warning_Deletes(warning_id) ==
  /\ session.admin
  /\ warnings' = {w \in warnings : w.id # warning_id}
  /\ UNCHANGED <<now, session, FILENAME, BACKUP_FILE, EXCEL_FRIENDLY_FILE,
                 origin, flashed, MEMO_FILE, inflight, deleted_count, deleted>>

remove_warning(warning_id) ==
  /\ session.admin
  /\ warnings' = {IF w.id = warning_id THEN [w EXCEPT !.is_active = FALSE]
                  ELSE w : w \in warnings}
  /\ UNCHANGED <<now, session, FILENAME, BACKUP_FILE, EXCEL_FRIENDLY_FILE,
                 origin, flashed, MEMO_FILE, inflight, deleted_count, deleted>>

(* ----------------------------- period memos --------------------------- *)
\* A value of the JSON body of /save_memo is a pair <<type, text>>: a JSON
\* string <<"str", s>> or a JSON number <<"int", s>> with decimal text s.
\* Python's == on two such values is TLA+ equality of the pairs: a number
\* never equals a string.
JStr(s) == <<"str", s>>
JInt(s) == <<"int", s>>

\* csv.DictWriter writes str(value); csv.DictReader reads every cell as str
csv_cell(v) == <<"str", v[2]>>

MemoDates == {JStr("05-07"), JStr("05-08")}
MemoPeriods == {JStr("1"), JInt("1"), JStr("2")}
MemoTexts == {JStr("a"), JStr("b")}

\* load_period_memos: the rows as csv.DictReader returns them
load_period_memos == MEMO_FILE

\* index of the first row with row.date == date and row.period == period,
\* 0 when the loop ends without a match
RECURSIVE FirstMemo(_, _, _, _)
FirstMemo(rows, i, date, period) ==
  IF i > Len(rows) THEN 0
  ELSE IF rows[i].date = date /\ rows[i].period = period THEN i
  ELSE FirstMemo(rows, i + 1, date, period)

get_period_memo(date, period) ==
  LET i == FirstMemo(load_period_memos, 1, date, period) IN
  IF i = 0 THEN JStr("") ELSE load_period_memos[i].memo

\* the rows are read, the first matching row is updated or a row is
\* appended, and the file is written back
save_period_memo(date, period, memo_text) ==
  LET rows == load_period_memos
      i == FirstMemo(rows, 1, date, period)
      updated == IF i # 0
                 THEN [rows EXCEPT ![i].memo = memo_text]
                 ELSE Append(rows, [date |-> date, period |-> period,
                                    memo |-> memo_text])
  IN MEMO_FILE' = [k \in 1..Len(updated) |->
                     [date |-> csv_cell(updated[k].date),
                      period |-> csv_cell(updated[k].period),
                      memo |-> csv_cell(updated[k].memo)]]

CanAddMemo == Len(MEMO_FILE) < MaxMemos

\* POST /save_memo
save_memo(date, period, memo_text) ==
  /\ session.admin
  /\ CanAddMemo \/ FirstMemo(MEMO_FILE, 1, date, period) # 0
  /\ save_period_memo(date, period, memo_text)
  /\ UNCHANGED <<now, session, FILENAME, BACKUP_FILE, EXCEL_FRIENDLY_FILE,
                 warnings, origin, flashed, inflight, deleted_count, deleted>>

delete_warning(warning_id) ==
  /\ session.admin
  /\ warnings' = {w \in warnings : w.id # warning_id}
  /\ UNCHANGED <<now, session, FILENAME, BACKUP_FILE, EXCEL_FRIENDLY_FILE,
                 origin, flashed, MEMO_FILE, inflight, deleted_count, deleted>>

delete_all_warnings ==
  /\ session.admin
  /\ warnings' = {}
  /\ UNCHANGED <<now, session, FILENAME, BACKUP_FILE, EXCEL_FRIENDLY_FILE,
                 origin, flashed, MEMO_FILE, inflight, deleted_count, deleted>>

(* ------------------- check-in form, two steps per request ------------- *)
\* The server handles each request in a thread of its own and takes no lock:
\* the reads of a request (period, capacity count, roster, eligibility) and
\* its append are separate steps, between which other requests may run.
\* inflight holds the requests that passed the reads and have not saved yet.
attendance_begin(student_id, name) ==
  LET flash == attendance_flash(student_id, name) IN
  /\ \A r \in inflight : r.student_id # student_id
  /\ IF flash = "success"
     THEN /\ inflight' = inflight \cup
                 {[student_id |-> student_id, name |-> name,
                   seat |-> load_student_data[student_id][2]]}
          /\ UNCHANGED flashed
     ELSE /\ flashed' = flash
          /\ UNCHANGED inflight
  /\ UNCHANGED <<now, session, FILENAME, BACKUP_FILE, EXCEL_FRIENDLY_FILE,
                 warnings, origin, MEMO_FILE, deleted_count, deleted>>

attendance_finish(r) ==
  /\ r \in inflight
  /\ CanAppend
  /\ save_attendance(r.student_id, r.name, r.seat, FALSE)
  /\ flashed' = "success"
  /\ inflight' = inflight \ {r}
  /\ UNCHANGED <<now, session, warnings, MEMO_FILE, deleted_count, deleted>>

(* --------------------------- record deletion -------------------------- *)
\* A record of the JSON body of /delete_records has the fields date,
\* student_id and period; a missing or empty field is the empty text <<>>.
\* The responses of the two deletion routes are kept in flashed, the
\* reported deleted_count in deleted_count; deleted is the history variable
\* of all rows ever removed from the main file.
\* the indexes, in file order, of the rows that are not in the set gone
KeptIndexes(rows, gone) ==
  SelectSeq([i \in 1..Len(rows) |-> i], LAMBDA i : rows[i] \notin gone)

\* rewrites the main and the Excel-friendly file with the kept rows
rewrite_files(idx) ==
  /\ FILENAME' = [j \in 1..Len(idx) |-> FILENAME[idx[j]]]
  /\ EXCEL_FRIENDLY_FILE' = FILENAME'
  /\ origin' = [j \in 1..Len(idx) |-> origin[idx[j]]]
  /\ deleted' = deleted \cup
        {FILENAME[i] : i \in (1..Len(FILENAME)) \ {idx[j] : j \in 1..Len(idx)}}

\* records_set: the triples that carry a student_id and a date
records_set(records_to_delete) ==
  {<<r.date, r.student_id, r.period>> :
     r \in {q \in records_to_delete : q.student_id # <<>> /\ q.date # <<>>}}

\* mutant of delete_records: a record is identified by date and student only
delete_records_IgnoresPeriod(records_to_delete) ==
  IF ~session.admin
  THEN /\ flashed' = "forbidden"
       /\ UNCHANGED <<now, session, FILENAME, BACKUP_FILE,
                      EXCEL_FRIENDLY_FILE, warnings, origin, MEMO_FILE,
                      inflight, deleted_count, deleted>>
  ELSE IF records_to_delete = {}
  THEN /\ flashed' = "none_selected"
       /\ UNCHANGED <<now, session, FILENAME, BACKUP_FILE,
                      EXCEL_FRIENDLY_FILE, warnings, origin, MEMO_FILE,
                      inflight, deleted_count, deleted>>
  ELSE LET all_records == FILENAME
           keys == {<<k[1], k[2]>> : k \in records_set(records_to_delete)}
           Keep(record) == <<record.date, record.student_id>> \notin keys
           gone == {all_records[i] :
                      i \in {j \in 1..Len(all_records) :
                               ~Keep(all_records[j])}}
           idx == KeptIndexes(all_records, gone)
       IN /\ BACKUP_FILE' = all_records
          /\ rewrite_files(idx)
          /\ deleted_count' = Len(all_records) - Len(idx)
          /\ flashed' = "deleted"
          /\ UNCHANGED <<now, session, warnings, MEMO_FILE, inflight>>

delete_records(records_to_delete) ==
  IF ~session.admin
  THEN /\ flashed' = "forbidden"
       /\ UNCHANGED <<now, session, FILENAME, BACKUP_FILE,
                      EXCEL_FRIENDLY_FILE, warnings, origin, MEMO_FILE,
                      inflight, deleted_count, deleted>>
  ELSE IF records_to_delete = {}
  THEN /\ flashed' = "none_selected"
       /\ UNCHANGED <<now, session, FILENAME, BACKUP_FILE,
                      EXCEL_FRIENDLY_FILE, warnings, origin, MEMO_FILE,
                      inflight, deleted_count, deleted>>
  ELSE LET all_records == FILENAME
           keys == records_set(records_to_delete)
           Keep(record) ==
             <<record.date, record.student_id, record.period>> \notin keys
           gone == {all_records[i] :
                      i \in {j \in 1..Len(all_records) :
                               ~Keep(all_records[j])}}
           idx == KeptIndexes(all_records, gone)
       IN \* the backup file is opened in mode 'w' and gets all_records
          /\ BACKUP_FILE' = all_records
          /\ rewrite_files(idx)
          /\ deleted_count' = Len(all_records) - Len(idx)
          /\ flashed' = "deleted"
          /\ UNCHANGED <<now, session, warnings, MEMO_FILE, inflight>>

\* mutant of before_date_verdict: the cutoff day itself is deleted too
before_date_verdict_Inclusive(record, cutoff_date) ==
  IF Len(record.date) >= 2
  THEN IF ~Parses(DatePart(record.date)) THEN "error"
       ELSE IF record.date[1] <= cutoff_date[1] THEN "delete" ELSE "keep"
  ELSE IF ~Parses(record.date) THEN "keep"
       ELSE IF record.date[1] <= cutoff_date[1] THEN "delete" ELSE "keep"

\* the outcome of the loop of delete_before_date over one record:
\* "error" when strptime raises outside a try block
before_date_verdict(record, cutoff_date) ==
  IF Len(record.date) >= 2
  THEN IF ~Parses(DatePart(record.date)) THEN "error"
       ELSE IF record.date[1] < cutoff_date[1] THEN "delete" ELSE "keep"
  ELSE IF ~Parses(record.date) THEN "keep"
       ELSE IF record.date[1] < cutoff_date[1] THEN "delete" ELSE "keep"

delete_before_date(date_str) ==
  IF ~session.admin
  THEN /\ flashed' = "login_required"
       /\ UNCHANGED <<now, session, FILENAME, BACKUP_FILE,
                      EXCEL_FRIENDLY_FILE, warnings, origin, MEMO_FILE,
                      inflight, deleted_count, deleted>>
  ELSE IF date_str = <<>>
  THEN /\ flashed' = "no_date"
       /\ UNCHANGED <<now, session, FILENAME, BACKUP_FILE,
                      EXCEL_FRIENDLY_FILE, warnings, origin, MEMO_FILE,
                      inflight, deleted_count, deleted>>
  ELSE IF \/ ~Parses(date_str)
          \/ \E i \in 1..Len(FILENAME) :
                before_date_verdict(FILENAME[i], date_str) = "error"
  THEN /\ flashed' = "bad_date"
       /\ UNCHANGED <<now, session, FILENAME, BACKUP_FILE,
                      EXCEL_FRIENDLY_FILE, warnings, origin, MEMO_FILE,
                      inflight, deleted_count, deleted>>
  ELSE LET all_records == FILENAME
           Keep(record) == before_date_verdict(record, date_str) = "keep"
           Gone(record) == before_date_verdict(record, date_str) = "delete"
           records_to_delete == SelectSeq(all_records, Gone)
           idx == KeptIndexes(all_records,
                              {records_to_delete[i] :
                                 i \in 1..Len(records_to_delete)})
       IN \* the backup file is opened in mode 'a' (or 'w' when it is empty)
          /\ BACKUP_FILE' = BACKUP_FILE \o records_to_delete
          /\ rewrite_files(idx)
          /\ flashed' = IF records_to_delete # <<>> THEN "deleted_before"
                        ELSE "none_before"
          /\ UNCHANGED <<now, session, warnings, MEMO_FILE, inflight,
                         deleted_count>>

(* -------------------------------- clock ------------------------------- *)
Tick ==
  /\ \E t \in ClockInstants :
       /\ Later(t, now)
       /\ now' = t
  /\ UNCHANGED <<session, FILENAME, BACKUP_FILE, EXCEL_FRIENDLY_FILE,
                 warnings, origin, flashed, MEMO_FILE,
                 inflight, deleted_count, deleted>>

(* --------------------------- specification ---------------------------- *)
FillerRows ==
  [k \in 1..NumFillers |->
     [date |-> <<0, 480>>, period |-> period_text(1),
      student_id |-> FillerId(k), name |-> FillerName, seat |-> "F00"]]

\* The files as found at start-up on the first Monday at 08:00: period 1 is
\* full, with the filler students, Kim and Pak checked in.
InitialRows ==
  FillerRows \o
  << [date |-> <<0, 480>>, period |-> period_text(1),
      student_id |-> IdKim, name |-> Kim, seat |-> "A12"],
     [date |-> <<0, 480>>, period |-> period_text(1),
      student_id |-> IdPak, name |-> Pak, seat |-> "B07"] >>

Init ==
  /\ now = [day |-> 0, minute |-> 480]
  /\ session = [admin |-> FALSE]
  /\ FILENAME = InitialRows
  /\ BACKUP_FILE = FILENAME
  /\ EXCEL_FRIENDLY_FILE = FILENAME
  /\ origin = [i \in 1..Len(FILENAME) |-> FALSE]
  /\ warnings = {}
  /\ flashed = "none"
  /\ MEMO_FILE = <<>>
  /\ inflight = {}
  /\ deleted_count = 0
  /\ deleted = {}

Next ==
  \/ Tick
  \/ \E password \in FormPasswords : admin_login(password)
  \/ logout
  \/ \E student_id \in FormIds, name \in FormNames :
       attendance(student_id, name)
  \/ \E student_id \in AdminFormIds, name \in FormNames, seat \in FormSeats,
        override \in BOOLEAN :
       admin_add_attendance_confirm(student_id, name, seat, override)
  \/ \E student_id \in FormIds, days \in WarnDays :
       add_warning(student_id, days)
  \/ \E warning_id \in 1..MaxWarnings : remove_warning(warning_id)

Spec == Init /\ [][Next]_vars

\* the register without the admin-initiated check-in
NextForm ==
  \/ Tick
  \/ \E password \in FormPasswords : admin_login(password)
  \/ logout
  \/ \E student_id \in FormIds, name \in FormNames :
       attendance(student_id, name)
  \/ \E student_id \in FormIds, days \in WarnDays :
       add_warning(student_id, days)
  \/ \E warning_id \in 1..MaxWarnings : remove_warning(warning_id)

SpecForm == Init /\ [][NextForm]_vars

\* the check-in desk: the student form and the admin-initiated check-in,
\* with no warning stored
NextDesk ==
  \/ Tick
  \/ \E password \in FormPasswords : admin_login(password)
  \/ logout
  \/ \E student_id \in FormIds, name \in FormNames :
       attendance(student_id, name)
  \/ \E student_id \in AdminFormIds, name \in FormNames, seat \in FormSeats,
        override \in BOOLEAN :
       admin_add_attendance_confirm(student_id, name, seat, override)

SpecDesk == Init /\ [][NextDesk]_vars

\* the check-in form over files whose writes may fail
NextStorage ==
  \/ Tick
  \/ \E student_id \in FormIds, name \in FormNames, fault \in Faults :
       attendance_io(student_id, name, fault)

SpecStorage == Init /\ [][NextStorage]_vars

\* the check-in form submitted at any minute of a Tuesday
InitPeriod ==
  /\ now \in {[day |-> 1, minute |-> m] : m \in MinutesOfDay}
  /\ session = [admin |-> FALSE]
  /\ FILENAME = InitialRows
  /\ BACKUP_FILE = FILENAME
  /\ EXCEL_FRIENDLY_FILE = FILENAME
  /\ origin = [i \in 1..Len(FILENAME) |-> FALSE]
  /\ warnings = {}
  /\ flashed = "none"
  /\ MEMO_FILE = <<>>
  /\ inflight = {}
  /\ deleted_count = 0
  /\ deleted = {}

NextPeriod ==
  \E student_id \in FormIds, name \in FormNames : attendance(student_id, name)

SpecPeriod == InitPeriod /\ [][NextPeriod]_vars

\* the check-in form submitted around the period boundaries of a Tuesday,
\* the clock running while a request is handled
InitClock ==
  /\ now \in BoundaryInstants
  /\ session = [admin |-> FALSE]
  /\ FILENAME = InitialRows
  /\ BACKUP_FILE = FILENAME
  /\ EXCEL_FRIENDLY_FILE = FILENAME
  /\ origin = [i \in 1..Len(FILENAME) |-> FALSE]
  /\ warnings = {}
  /\ flashed = "none"
  /\ MEMO_FILE = <<>>
  /\ inflight = {}
  /\ deleted_count = 0
  /\ deleted = {}

NextClock ==
  \E student_id \in FormIds, name \in FormNames, t_save \in BoundaryInstants :
     attendance_clock(student_id, name, t_save)

SpecClock == InitClock /\ [][NextClock]_vars

\* the memo file: an admin logs in and saves memos
NextMemo ==
  \/ \E password \in FormPasswords : admin_login(password)
  \/ logout
  \/ \E date \in MemoDates, period \in MemoPeriods, memo_text \in MemoTexts :
       save_memo(date, period, memo_text)

SpecMemo == Init /\ [][NextMemo]_vars

\* the warning store of a register without rows: an admin adds, deactivates
\* and deletes warnings while the clock runs
InitWarn ==
  /\ now = [day |-> 0, minute |-> 480]
  /\ session = [admin |-> FALSE]
  /\ FILENAME = <<>>
  /\ BACKUP_FILE = FILENAME
  /\ EXCEL_FRIENDLY_FILE = FILENAME
  /\ origin = <<>>
  /\ warnings = {}
  /\ flashed = "none"
  /\ MEMO_FILE = <<>>
  /\ inflight = {}
  /\ deleted_count = 0
  /\ deleted = {}

NextWarn ==
  \/ Tick
  \/ \E password \in FormPasswords : admin_login(password)
  \/ \E student_id \in FormIds, days \in StoreWarnDays :
       add_warning_to(student_id, days, MaxStoredWarnings)
  \/ \E warning_id \in 1..MaxStoredWarnings : remove_warning(warning_id)
  \/ \E warning_id \in 1..MaxStoredWarnings : delete_warning(warning_id)
  \/ delete_all_warnings

SpecWarn == InitWarn /\ [][NextWarn]_vars

\* concurrent check-in forms: on the first Monday at 08:00 period 1 holds 34
\* records (all fillers but the last two, Kim, and Pak twice, who is exempt
\* from the weekly limit); the last two fillers, Kim and Pak submit forms
RaceRows ==
  SubSeq(FillerRows, 1, NumFillers - 2) \o
  << [date |-> <<0, 480>>, period |-> period_text(1),
      student_id |-> IdKim, name |-> Kim, seat |-> "A12"],
     [date |-> <<0, 480>>, period |-> period_text(1),
      student_id |-> IdPak, name |-> Pak, seat |-> "B07"],
     [date |-> <<0, 480>>, period |-> period_text(1),
      student_id |-> IdPak, name |-> Pak, seat |-> "B07"] >>

RaceIds == {FillerId(NumFillers - 1), FillerId(NumFillers), IdKim, IdPak}
RaceNames == {FillerName, Pak}

InitRace ==
  /\ now = [day |-> 0, minute |-> 480]
  /\ session = [admin |-> FALSE]
  /\ FILENAME = RaceRows
  /\ BACKUP_FILE = FILENAME
  /\ EXCEL_FRIENDLY_FILE = FILENAME
  /\ origin = [i \in 1..Len(FILENAME) |-> FALSE]
  /\ warnings = {}
  /\ flashed = "none"
  /\ MEMO_FILE = <<>>
  /\ inflight = {}
  /\ deleted_count = 0
  /\ deleted = {}

\* a request lasts less than the time between two clock instants
NextRace ==
  \/ inflight = {} /\ Tick
  \/ \E student_id \in RaceIds, name \in RaceNames :
       attendance_begin(student_id, name)
  \/ \E r \in inflight : attendance_finish(r)

SpecRace == InitRace /\ [][NextRace]_vars

\* the deletion routes: on the second Monday at 08:00 the files hold two
\* rows of an earlier format (a date without a time, and a text that is no
\* date) and three rows written by save_attendance
DeleteRows ==
  << [date |-> <<-1>>, period |-> period_text(1),
      student_id |-> IdKim, name |-> Kim, seat |-> "A12"],
     [date |-> <<0>>, period |-> period_text(1),
      student_id |-> IdPak, name |-> Pak, seat |-> "B07"],
     [date |-> <<0, 480>>, period |-> period_text(1),
      student_id |-> IdKim, name |-> Kim, seat |-> "A12"],
     [date |-> <<1, 480>>, period |-> period_text(1),
      student_id |-> IdPak, name |-> Pak, seat |-> "B07"],
     [date |-> <<7, 480>>, period |-> period_text(1),
      student_id |-> IdPak, name |-> Pak, seat |-> "B07"] >>

\* the records a deletion request may name: two stored rows, the first of
\* them with another period, and one without a student_id
DeleteTriples ==
  { [date |-> <<0, 480>>, student_id |-> IdKim, period |-> period_text(1)],
    [date |-> <<0, 480>>, student_id |-> IdKim, period |-> period_text(2)],
    [date |-> <<1, 480>>, student_id |-> IdPak, period |-> period_text(1)],
    [date |-> <<0, 480>>, student_id |-> <<>>, period |-> period_text(1)] }

DeleteRequests == {R \in SUBSET DeleteTriples : Cardinality(R) <= MaxTriples}

\* delete_date of the form: empty, no date, and three days
CutoffDates == {<<>>, <<-1>>, <<1>>, <<7>>, <<8>>}

InitDelete ==
  /\ now = [day |-> 7, minute |-> 480]
  /\ session = [admin |-> FALSE]
  /\ FILENAME = DeleteRows
  /\ BACKUP_FILE = FILENAME
  /\ EXCEL_FRIENDLY_FILE = FILENAME
  /\ origin = [i \in 1..Len(FILENAME) |-> FALSE]
  /\ warnings = {}
  /\ flashed = "none"
  /\ MEMO_FILE = <<>>
  /\ inflight = {}
  /\ deleted_count = 0
  /\ deleted = {}

NextDelete ==
  \/ \E password \in FormPasswords : admin_login(password)
  \/ logout
  \/ \E records_to_delete \in DeleteRequests :
       delete_records(records_to_delete)
  \/ \E date_str \in CutoffDates : delete_before_date(date_str)

SpecDelete == InitDelete /\ [][NextDelete]_vars

\* the admin check-in form with a seat field that the admin may edit
AdminSeats == {"A12", "B07"}

NextSeat ==
  \/ Tick
  \/ \E password \in FormPasswords : admin_login(password)
  \/ \E student_id \in FormIds, name \in FormNames :
       attendance(student_id, name)
  \/ \E student_id \in AdminFormIds, name \in FormNames, seat \in AdminSeats :
       admin_add_attendance_confirm(student_id, name, seat, FALSE)

SpecSeat == Init /\ [][NextSeat]_vars

\* every admin-only operation, with logins and logouts, over the small files
\* of the deletion routes; the check-in is bounded by the lengths of the
\* main and of the backup file
NextAdmin ==
  \/ \E password \in FormPasswords : admin_login(password)
  \/ logout
  \/ \E record \in DeleteTriples : delete_records({record})
  \/ delete_before_date(<<1>>)
  \/ save_memo(JStr("05-07"), JStr("1"), JStr("a"))
  \/ /\ Len(FILENAME) < Len(DeleteRows) + MaxNew
     /\ Len(BACKUP_FILE) < Len(DeleteRows) + MaxNew
     /\ admin_add_attendance_confirm(IdKim, Kim, "A12", FALSE)
  \/ \E days \in WarnDays : add_warning(IdKim, days)
  \/ \E warning_id \in 1..MaxWarnings : remove_warning(warning_id)
  \/ \E warning_id \in 1..MaxWarnings : delete_warning(warning_id)
  \/ delete_all_warnings

SpecAdmin == InitDelete /\ [][NextAdmin]_vars

(* ======================= properties of the claims ===================== *)
Exempt(id) == Len(id) > 0 /\ id[1] = 3
KnownIds == DOMAIN load_student_data \cup FormIds
RowsOf(id) == {i \in 1..Len(FILENAME) : FILENAME[i].student_id = id}
RowDay(i) == FILENAME[i].date[1]
WeekOf(day) == day \div 7
RowInThisWeekMonFri(i) ==
  RowDay(i) >= now.day - (now.day % 7) /\ RowDay(i) % 7 <= 4
WarningInEffect(id) ==
  \E w \in warnings :
     w.student_id = id /\ w.is_active /\ Later(w.expiry_date, now)
PeriodLabels == {period_text(p) : p \in 0..Len(PERIOD_SCHEDULE)}
TodayRows(label) ==
  {i \in 1..Len(FILENAME) : RowDay(i) = now.day /\ FILENAME[i].period = label}
ActiveRoomFull ==
  /\ get_current_period(now) # 0
  /\ Cardinality(TodayRows(period_text(get_current_period(now)))) >= 35
ValidForm(id, name) ==
  /\ id \in DOMAIN load_student_data
  /\ NoSpaces(load_student_data[id][1]) = NoSpaces(name)
LastRow == FILENAME[Len(FILENAME)]

\* C1: the attendance file never holds two rows of the same student in the
\* same week that were both created without the override flag.  Stated for
\* the students the weekly limit applies to (no exempt leading digit), who
\* are among "all students" of the claim.
C1_OnePlainCheckinPerWeek ==
  \A i, j \in 1..Len(FILENAME) :
     (/\ i < j
      /\ FILENAME[i].student_id = FILENAME[j].student_id
      /\ ~Exempt(FILENAME[i].student_id)
      /\ ~origin[i] /\ ~origin[j])
     => WeekOf(RowDay(i)) # WeekOf(RowDay(j))

\* C2: when today's active period already holds 35 rows, a submission of the
\* check-in form, whatever the identifier and name, ends with the capacity
\* message and leaves the three attendance files unchanged.
C2_FullRoomRejects ==
  [][ActiveRoomFull =>
       \A id \in FormIds, name \in FormNames :
          attendance(id, name)
          => /\ flashed' = "capacity"
             /\ UNCHANGED <<FILENAME, BACKUP_FILE, EXCEL_FRIENDLY_FILE>>]_vars

C2_Witness ==
  /\ ActiveRoomFull
  /\ Cardinality(TodayRows(period_text(get_current_period(now)))) = 35
  /\ flashed = "capacity"

\* C3: the rows dated today and tagged with one period label never number
\* more than the capacity of 35.
C3_CapacityNeverExceeded ==
  \A label \in PeriodLabels : Cardinality(TodayRows(label)) <= 35

\* C4: for every identifier with the leading digit 3 the eligibility check
\* answers "not already attended, not warned", with and without the
\* override flag, whatever the rows and warnings stored.
C4_ExemptAlwaysEligible ==
  \A id \in {k \in KnownIds : Exempt(k)}, override \in BOOLEAN :
     LET r == check_attendance(id, override, session, now) IN
     ~r.already_attended /\ ~r.is_warned

C4_Witness ==
  /\ WarningInEffect(IdPak)
  /\ \E i \in RowsOf(IdPak) : i < Len(FILENAME) /\ RowInThisWeekMonFri(i)
  /\ LastRow.student_id = IdPak /\ LastRow.date = Stamp(now)
  /\ flashed = "success"

\* C5: a submission of the check-in form, from a browser without admin
\* session, by a roster-valid student without the exempt digit who has a
\* warning in effect creates no row.
C5_WarnedStudentRejected ==
  [][\A id \in FormIds, name \in FormNames :
       (/\ ValidForm(id, name)
        /\ ~Exempt(id)
        /\ WarningInEffect(id)
        /\ ~session.admin
        /\ attendance(id, name))
       => /\ FILENAME' = FILENAME
          /\ flashed' # "success"]_vars

\* C6: a student without the exempt digit whose warnings all have the active
\* flag set and an expiry that is not after now, and who has no Mon-Fri row
\* this week, is reported eligible without override, and the submitted form
\* appends the row of that student.
OnlyExpiredWarnings(id) ==
  /\ \E w \in warnings : w.student_id = id
  /\ \A w \in warnings :
        w.student_id = id => w.is_active /\ ~Later(w.expiry_date, now)
NoRowThisWeek(id) == \A i \in RowsOf(id) : ~RowInThisWeekMonFri(i)

C6_ExpiredWarningDoesNotBlock ==
  /\ [](\A id \in {k \in KnownIds : ~Exempt(k)} :
          (OnlyExpiredWarnings(id) /\ NoRowThisWeek(id))
          => LET r == check_attendance(id, FALSE, session, now) IN
             ~r.already_attended /\ ~r.is_warned)
  /\ [][\A id \in FormIds, name \in FormNames :
          (/\ ValidForm(id, name)
           /\ ~Exempt(id)
           /\ OnlyExpiredWarnings(id) /\ NoRowThisWeek(id)
           /\ get_current_period(now) # 0 /\ ~ActiveRoomFull
           /\ attendance(id, name))
          => /\ Len(FILENAME') = Len(FILENAME) + 1
             /\ FILENAME'[Len(FILENAME')].student_id = id
             /\ FILENAME'[Len(FILENAME')].date = Stamp(now)
             /\ flashed' = "success"]_vars

C6_Witness ==
  /\ OnlyExpiredWarnings(IdKim)
  /\ LastRow.student_id = IdKim /\ LastRow.date = Stamp(now)
  /\ \A i \in RowsOf(IdKim) : RowInThisWeekMonFri(i) => i = Len(FILENAME)
  /\ flashed = "success"

\* C7: the attendance file never holds two rows with the same student
\* identifier, period label and calendar day.
C7_NoDuplicateRow ==
  \A i, j \in 1..Len(FILENAME) :
     (/\ i < j
      /\ FILENAME[i].student_id = FILENAME[j].student_id
      /\ FILENAME[i].period = FILENAME[j].period)
     => RowDay(i) # RowDay(j)

\* C8: the resolver returns p exactly when start_p <= t < end_p for a
\* configured period p other than 4; inside [12:05, 12:30) and outside every
\* interval it returns 0; a time equal to the end of a period resolves to the
\* following period or to 0, never to the ending one; the result is never 4.
InInterval(p, t) == PeriodStart(p) <= t /\ t < PeriodEnd(p)

C8_ResolverHalfOpen ==
  LET t == now.minute
      r == get_current_period(now)
      periods == 1..Len(PERIOD_SCHEDULE)
  IN /\ \A p \in periods \ {4} : (r = p) <=> InInterval(p, t)
     /\ (12 * 60 + 5 <= t /\ t < 12 * 60 + 30) => r = 0
     /\ (\A p \in periods : ~InInterval(p, t)) => r = 0
     /\ r # 4
     /\ \A p \in periods :
           t = PeriodEnd(p) =>
             /\ r # p
             /\ r = (IF p + 1 \in periods \ {4} /\ InInterval(p + 1, t)
                     THEN p + 1 ELSE 0)

\* a row saved at 09:15, the end of period 1, carries the label of period 2
C8_Witness ==
  /\ now.minute = 9 * 60 + 15
  /\ get_current_period(now) = 2
  /\ flashed = "success"
  /\ LastRow.date = Stamp(now) /\ LastRow.period = period_text(2)

\* C9: with the override flag set the eligibility check answers "not already
\* attended, not warned" for every student, whatever the rows of this week
\* and the warnings in effect, and whatever the session.
C9_OverrideAlwaysEligible ==
  \A id \in KnownIds, admin \in BOOLEAN :
     LET r == check_attendance(id, TRUE, [admin |-> admin], now) IN
     ~r.already_attended /\ ~r.is_warned

C9_Witness ==
  /\ session.admin
  /\ WarningInEffect(IdKim)
  /\ \E i \in RowsOf(IdKim) : RowInThisWeekMonFri(i)

\* C10: for a student without the exempt digit and without a warning in
\* effect, the eligibility check without override reports "already attended"
\* exactly when the file holds a row of that student dated on or after this
\* week's Monday whose weekday is Monday to Friday.
C10_AlreadyAttendedIffRowThisWeek ==
  \A id \in {k \in KnownIds : ~Exempt(k)} :
     ~WarningInEffect(id)
     => (check_attendance(id, FALSE, session, now).already_attended
           <=> \E i \in RowsOf(id) : RowInThisWeekMonFri(i))

\* C11: the eligibility check gives the same result from a browser session
\* logged in as admin and from one that is not, for every student and
\* override flag, at the same time and over the same rows and warnings.
C11_ResultIndependentOfSession ==
  \A id \in KnownIds, override \in BOOLEAN :
     check_attendance(id, override, [admin |-> TRUE], now)
       = check_attendance(id, override, [admin |-> FALSE], now)

\* C12: a submission of the check-in form at a time that lies in no period
\* interval, or inside the excluded interval of period 4, ends with the
\* no-active-period message and leaves the three attendance files unchanged,
\* for every identifier, the exempt ones included.
NoActivePeriod ==
  \A p \in (1..Len(PERIOD_SCHEDULE)) \ {4} : ~InInterval(p, now.minute)

C12_NoPeriodRejects ==
  [][NoActivePeriod =>
       \A id \in FormIds, name \in FormNames :
          attendance(id, name)
          => /\ flashed' = "no_period"
             /\ FILENAME' = FILENAME
             /\ BACKUP_FILE' = BACKUP_FILE
             /\ EXCEL_FRIENDLY_FILE' = EXCEL_FRIENDLY_FILE]_vars

\* a form was submitted inside the excluded interval [12:05, 12:30)
C12_Witness ==
  /\ InInterval(4, now.minute)
  /\ flashed = "no_period"
  /\ FILENAME = InitialRows

\* C13: a check-in, by the student form or by the admin, whose identifier is
\* not in the roster or whose name differs from the roster name after the
\* spaces are removed, ends without success and changes neither the
\* attendance files nor the warnings nor the memo file; a name that equals
\* the roster name up to spaces is never answered with the unknown-identifier
\* or the name-mismatch message.
C13_InvalidFormRejected ==
  [][\A id \in FormIds, name \in FormNames, seat \in FormSeats,
        override \in BOOLEAN :
       (attendance(id, name)
          \/ admin_add_attendance_confirm(id, name, seat, override))
       => IF ValidForm(id, name)
          THEN flashed' \notin {"bad_id", "bad_name"}
          ELSE /\ flashed' # "success"
               /\ UNCHANGED <<FILENAME, BACKUP_FILE, EXCEL_FRIENDLY_FILE,
                              warnings, MEMO_FILE,
                              inflight, deleted_count, deleted>>]_vars

\* a row was saved under the name written with a space, and a later
\* submission with another student's name was refused
C13_Witness ==
  /\ Len(FILENAME) = Len(InitialRows) + 1
  /\ LastRow.student_id = IdKim /\ LastRow.name = KimSpaced
  /\ flashed = "bad_name"

\* C14: when save_attendance reports failure during a form submission, none
\* of the three attendance files has gained the row of that request.
C14_FailedSaveWritesNothing ==
  [][\A id \in FormIds, name \in FormNames, fault \in Faults :
       (attendance_io(id, name, fault) /\ flashed' = "save_error")
       => /\ FILENAME' = FILENAME
          /\ BACKUP_FILE' = BACKUP_FILE
          /\ EXCEL_FRIENDLY_FILE' = EXCEL_FRIENDLY_FILE]_vars

\* C15: a form submission that ends with success appends exactly one row to
\* the attendance file and leaves the earlier rows as they were; the row
\* carries the identifier, the seat of the roster for that identifier, the
\* time at which it was written as its stamp, and the label of the period
\* that time resolves to: "N gyosi" when it lies in period N.
ActivePeriodAt(minute) ==
  {p \in (1..Len(PERIOD_SCHEDULE)) \ {4} : InInterval(p, minute)}

LabelAt(minute) ==
  IF ActivePeriodAt(minute) = {} THEN "sigan-oe"
  ELSE ToString(CHOOSE p \in ActivePeriodAt(minute) : TRUE) \o "gyosi"

C15_SuccessAppendsOneRow ==
  [][\A id \in FormIds, name \in FormNames :
       (flashed' = "success" /\ attendance_clock(id, name, now'))
       => /\ Len(FILENAME') = Len(FILENAME) + 1
          /\ SubSeq(FILENAME', 1, Len(FILENAME)) = FILENAME
          /\ LET r == FILENAME'[Len(FILENAME')] IN
             /\ r.student_id = id
             /\ r.seat = load_student_data[id][2]
             /\ r.date = <<now'.day, now'.minute>>
             /\ r.period = LabelAt(now'.minute)]_vars

\* Kim, seat A12 in the roster, checked in during period 2
C15_Witness ==
  /\ Len(FILENAME) = Len(InitialRows) + 1
  /\ LastRow.student_id = IdKim /\ LastRow.seat = "A12"
  /\ LastRow.period = "2gyosi" /\ LastRow.date = <<now.day, now.minute>>
  /\ flashed = "success"

\* C16: no row created by a submission of the student form carries the
\* out-of-period label, also when the clock passes the end of the period
\* between the period check and the save.
C16_FormRowInsidePeriod ==
  \A i \in 1..Len(FILENAME) :
     i > Len(InitialRows) => FILENAME[i].period # "sigan-oe"

\* C17: the form handler tests the period first, the capacity second, the
\* roster third.  In every state, for the message the handler ends with on
\* each possible submission: with no active period every submission gets the
\* no-active-period message; with an active period that holds 35 rows every
\* submission gets the capacity message, whoever submits (unknown, wrong
\* name, exempt, warned, already attended); otherwise a submission that
\* fails the roster gets the unknown-identifier or name-mismatch message.
C17_ChecksInOrder ==
  \A id \in FormIds, name \in FormNames :
     LET flash == attendance_flash(id, name) IN
     IF NoActivePeriod THEN flash = "no_period"
     ELSE IF ActiveRoomFull THEN flash = "capacity"
     ELSE IF ~ValidForm(id, name) THEN flash \in {"bad_id", "bad_name"}
     ELSE flash \in {"already", "success"}

\* the room is full, Kim is warned and has a row this week, and a form was
\* answered with the capacity message
C17_Witness ==
  /\ ActiveRoomFull
  /\ WarningInEffect(IdKim)
  /\ \E i \in RowsOf(IdKim) : RowInThisWeekMonFri(i)
  /\ flashed = "capacity"

\* C18: an admin-initiated check-in, made from an admin session for a
\* roster-valid student who has no Mon-Fri row this week or with the override
\* flag set, is saved when today's current period already holds 35 or more
\* rows, and is saved with the out-of-period label when no period is active.
C18_AdminPathIgnoresCapacity ==
  [][\A id \in AdminFormIds, name \in FormNames, seat \in FormSeats,
        override \in BOOLEAN :
       (/\ session.admin
        /\ ValidForm(id, name)
        /\ override \/ NoRowThisWeek(id)
        /\ ActiveRoomFull \/ NoActivePeriod
        /\ admin_add_attendance_confirm(id, name, seat, override))
       => /\ flashed' = "success"
          /\ Len(FILENAME') = Len(FILENAME) + 1
          /\ FILENAME'[Len(FILENAME')].student_id = id
          /\ FILENAME'[Len(FILENAME')].date = <<now.day, now.minute>>
          /\ FILENAME'[Len(FILENAME')].period = LabelAt(now.minute)]_vars

\* the admin added a 36th row to today's period 1
C18_Witness ==
  /\ session.admin
  /\ flashed = "success"
  /\ LastRow.date = <<now.day, now.minute>> /\ LastRow.period = "1gyosi"
  /\ Cardinality(TodayRows("1gyosi")) = 36

\* the admin added a row while no period was active
C18_WitnessNoPeriod ==
  /\ session.admin
  /\ flashed = "success"
  /\ NoActivePeriod
  /\ LastRow.date = <<now.day, now.minute>> /\ LastRow.period = "sigan-oe"

\* C19: the memo file never holds two rows with the same date and period.
C19_OneMemoPerPair ==
  \A i, j \in 1..Len(MEMO_FILE) :
     i < j => ~(/\ MEMO_FILE[i].date = MEMO_FILE[j].date
                /\ MEMO_FILE[i].period = MEMO_FILE[j].period)

\* the rest of the upsert: after a save for (date, period) a lookup of that
\* pair returns the saved text, and the lookups of all other pairs return
\* what they returned before
MemoKeys == {<<d, p>> : d \in MemoDates, p \in MemoPeriods}

SaveThenLookup ==
  [][\A date \in MemoDates, period \in MemoPeriods, text \in MemoTexts :
       save_memo(date, period, text)
       => /\ get_period_memo(date, period)' = text
          /\ \A k \in MemoKeys \ {<<date, period>>} :
                get_period_memo(k[1], k[2])' = get_period_memo(k[1], k[2])
    ]_vars

\* C20: a student is reported as warned exactly when the store holds a
\* warning of that student whose active flag is set and whose expiry is
\* after now; deactivating or deleting one warning leaves the student
\* reported as warned when another warning of the student is in effect.
OtherInEffect(id, warning_id) ==
  \E w \in warnings :
     /\ w.id # warning_id
     /\ w.student_id = id /\ w.is_active /\ Later(w.expiry_date, now)

C20_WarnedIffInEffect ==
  /\ [](\A id \in KnownIds :
          is_student_warned(id, now)[1] <=> WarningInEffect(id))
  /\ [][\A warning_id \in 1..MaxStoredWarnings :
          (remove_warning(warning_id) \/ delete_warning(warning_id))
          => \A id \in KnownIds :
                OtherInEffect(id, warning_id) => is_student_warned(id, now)'[1]
       ]_vars

\* a warning reaches its expiry: at that instant it is no longer in effect
C20_WitnessExpiry ==
  /\ \E w \in warnings :
        w.student_id = IdKim /\ w.is_active /\ w.expiry_date = now
  /\ ~is_student_warned(IdKim, now)[1]

\* Kim has a deactivated warning and a later one in effect
C20_Witness ==
  /\ \E w \in warnings : w.student_id = IdKim /\ ~w.is_active
  /\ \E w \in warnings :
        /\ w.student_id = IdKim /\ w.is_active /\ Later(w.expiry_date, now)
        /\ \E v \in warnings : v.student_id = IdKim /\ ~v.is_active
                                 /\ v.id < w.id
  /\ is_student_warned(IdKim, now)[1]

\* C21: remove_warning keeps every warning and changes only the active flag
\* of the named one, to false; delete_warning removes the named warning and
\* no other; delete_all_warnings leaves the store empty and no student
\* warned.
C21_RemoveDeleteDistinct ==
  [][/\ \A warning_id \in 1..MaxStoredWarnings :
          remove_warning(warning_id)
          => /\ {w.id : w \in warnings'} = {w.id : w \in warnings}
             /\ \A w \in warnings :
                   IF w.id = warning_id
                   THEN [w EXCEPT !.is_active = FALSE] \in warnings'
                   ELSE w \in warnings'
     /\ \A warning_id \in 1..MaxStoredWarnings :
          delete_warning(warning_id)
          => /\ \A w \in warnings' : w.id # warning_id
             /\ \A w \in warnings : w.id # warning_id => w \in warnings'
             /\ warnings' \subseteq warnings
     /\ delete_all_warnings
          => /\ warnings' = {}
             /\ \A id \in KnownIds : ~is_student_warned(id, now)'[1]
    ]_vars

\* two warnings were stored; one was deactivated and is still there with its
\* expiry in the future, the other was deleted
C21_Witness ==
  /\ Cardinality(warnings) = 1
  /\ \E w \in warnings :
        /\ ~w.is_active /\ Later(w.expiry_date, now)
        /\ w.id = 2

\* C22: in the admin-initiated check-in of a student who already has a
\* record in this Monday-to-Friday week, a request without the override flag
\* is rejected and appends nothing, and a request with the flag appends
\* exactly one record.
C22_AdminPathRejectsSecondCheckin ==
  [][\A id \in AdminFormIds, name \in FormNames, seat \in FormSeats,
        override \in BOOLEAN :
       (/\ session.admin
        /\ ValidForm(id, name)
        /\ ~Exempt(id)
        /\ \E i \in RowsOf(id) : RowInThisWeekMonFri(i)
        /\ admin_add_attendance_confirm(id, name, seat, override))
       => IF override
          THEN /\ Len(FILENAME') = Len(FILENAME) + 1
               /\ FILENAME'[Len(FILENAME')].student_id = id
          ELSE /\ FILENAME' = FILENAME
               /\ flashed' # "success"]_vars

\* C23: with check-in forms of different students running concurrently, the
\* capacity read of one between the reads and the append of another, the
\* records of today's current period never number more than 35.
C23_ConcurrentFormsKeepCapacity ==
  get_current_period_attendance_count(now) <= MAX_CAPACITY

\* the row equals one of the requested (date, student_id, period) triples
Requested(row, records) ==
  \E r \in records :
     r.date = row.date /\ r.student_id = row.student_id
       /\ r.period = row.period

\* C24: delete_records removes exactly the rows whose timestamp, student
\* identifier and period label equal a requested triple, keeps all other
\* rows unchanged and in their order, and reports as deleted_count the
\* number of rows removed; a request matching no row changes no row.
C24_DeleteRecordsExact ==
  [][\A records \in DeleteRequests \ {{}} :
       (session.admin /\ delete_records(records))
       => LET Stays(row) == ~Requested(row, records) IN
          /\ FILENAME' = SelectSeq(FILENAME, Stays)
          /\ deleted_count' = Len(FILENAME) - Len(FILENAME')
          /\ (\A i \in 1..Len(FILENAME) : Stays(FILENAME[i]))
               => FILENAME' = FILENAME]_vars

\* a request that named a stored row and the same row with another period
\* removed one row out of the middle of the file
C24_Witness ==
  /\ flashed = "deleted"
  /\ deleted_count = 1
  /\ Len(FILENAME) = Len(DeleteRows) - 1
  /\ FILENAME[Len(FILENAME)] = DeleteRows[Len(DeleteRows)]
  /\ \A i \in 1..Len(FILENAME) :
        <<FILENAME[i].date, FILENAME[i].student_id>> # <<<<0, 480>>, IdKim>>

\* a request matching no row (another period, or no student_id) was served
\* and all rows are still there
C24_WitnessNoMatch ==
  /\ flashed = "deleted"
  /\ deleted_count = 0
  /\ FILENAME = DeleteRows

\* the row is dated (with or without a time) on a day before the cutoff
DatedBefore(row, cutoff) ==
  Parses(DatePart(row.date)) /\ row.date[1] < cutoff[1]

\* C25: delete_before_date removes exactly the rows whose date part is
\* strictly earlier than the cutoff date; rows of the cutoff date or later
\* and rows whose date-only text is no date stay, unchanged and in order;
\* the removed rows are appended to the backup file.
C25_DeleteBeforeCutoff ==
  [][\A cutoff \in {c \in CutoffDates : c # <<>> /\ Parses(c)} :
       (session.admin /\ delete_before_date(cutoff))
       => LET Stays(row) == ~DatedBefore(row, cutoff)
              Goes(row) == DatedBefore(row, cutoff) IN
          /\ FILENAME' = SelectSeq(FILENAME, Stays)
          /\ BACKUP_FILE' = BACKUP_FILE \o SelectSeq(FILENAME, Goes)]_vars

\* the cutoff of day 1 removed the two rows of day 0, with and without a
\* time; the row that is no date, the row of the cutoff day and the later
\* row stayed, and the backup file is longer by the two rows
C25_Witness ==
  /\ flashed = "deleted_before"
  /\ FILENAME = << DeleteRows[1], DeleteRows[4], DeleteRows[5] >>
  /\ BACKUP_FILE = DeleteRows \o << DeleteRows[2], DeleteRows[3] >>

\* C28: every row that an admin deletion removed from the main file is
\* still present in the backup file, after any sequence of delete_records
\* and delete_before_date requests.
C28_DeletedRowsStayInBackup ==
  \A row \in deleted : \E i \in 1..Len(BACKUP_FILE) : BACKUP_FILE[i] = row

\* C27: after every operation that reports success the main attendance file
\* and the Excel-friendly attendance file hold the same sequence of rows.
C27_MainAndExcelAgree ==
  flashed = "success" => FILENAME = EXCEL_FRIENDLY_FILE

\* C29: every row of the attendance file carries the seat label that the
\* roster holds for the student identifier of the row, whether the student
\* form or the admin check-in wrote it.
C29_RowsCarryRosterSeat ==
  \A i \in 1..Len(FILENAME) :
     FILENAME[i].student_id \in DOMAIN load_student_data
       => FILENAME[i].seat = load_student_data[FILENAME[i].student_id][2]

\* what the admin-only operations store: the three attendance files, the
\* memo file and the warnings
StoredState ==
  <<FILENAME, BACKUP_FILE, EXCEL_FRIENDLY_FILE, MEMO_FILE, warnings>>

\* C26: an admin-only operation (record deletion, deletion by cutoff date,
\* memo save, admin check-in, warning add, remove, delete and delete-all)
\* changes stored state only in a session whose admin flag is set; the flag
\* gets set only by a login with the configured password, a login with
\* another password never sets it, and a logout clears it.
C26_AdminOnlyNeedsLogin ==
  [][/\ StoredState' # StoredState => session.admin
     /\ (~session.admin /\ session'.admin) => admin_login(ADMIN_PASSWORD)
     /\ \A password \in FormPasswords \ {ADMIN_PASSWORD} :
          (~session.admin /\ admin_login(password)) => ~session'.admin
     /\ logout => ~session'.admin]_vars

\* a deletion request was refused after a logout, and the files still show
\* what the admin did while logged in
C26_Witness ==
  /\ ~session.admin
  /\ flashed = "forbidden"
  /\ deleted # {}
  /\ MEMO_FILE # <<>>
  /\ warnings # {}

====
